---- MODULE Spec2Model ----
(***************************************************************************)
(* kMenus: a tree of IMenuItem nodes (Menu, ActionItem) driven by the      *)
(* read-render-dispatch loop of Menu::execute over std::cin.               *)
(*                                                                         *)
(* The repository holds two variants of the loop:                          *)
(*   "include" : src/include/Menu/{Menu.h, ActionItem.h, MenuUtils.h}      *)
(*   "src"     : src/src/Menu/{Menu.h, ActionItem.h}                       *)
(* Both are modelled; the variable `variant` says which one runs.          *)
(*                                                                         *)
(* std::cin is modelled at character level: a buffer of unread characters, *)
(* the failbit and the eofbit.  The user types whole lines.                *)
(***************************************************************************)
EXTENDS Integers, Sequences, FiniteSets, TLC

(* ------------------------------ bounds --------------------------------- *)
\* lines the user types during one run
MaxLines == 3
\* lines typed ahead of the line the program is reading
MaxPending == 1
\* integers of a prepared input feed (specification FeedSpec)
MaxFeed == 4
\* add_* calls made while a tree is built
MaxAdds == 3
\* add_* calls and prepared input lines of a run on a tree built step by step
MaxCycleAdds == 2
MaxCycleFeed == 3
\* prepared input lines of each of two runs that are compared
MaxTwinFeed == 3

(* --------------------------- int (32 bit) ------------------------------ *)
IntMax == 2147483647
IntMin == -IntMax - 1

(* ----------------------------- characters ------------------------------ *)
NL == "nl"
Digits == <<"0", "1", "2", "3", "4", "5", "6", "7", "8", "9">>
IsDigit(c) == \E i \in 1..10 : Digits[i] = c
DigitVal(c) == (CHOOSE i \in 1..10 : Digits[i] = c) - 1
\* std::isspace for the characters of the model
IsSpace(c) == c \in {" ", NL}

(* ------------------------- std::istream (cin) -------------------------- *)
\* A stream is [buf, fail, eofb]: unread characters, failbit, eofbit.
\* When the buffer runs dry the stream is at end of file: every operator
\* below is applied only when it cannot block (see the Ready* guards).

\* ios::good()
Good(s) == ~s.fail /\ ~s.eofb

\* ios::clear()
Clear(s) == [s EXCEPT !.fail = FALSE, !.eofb = FALSE]

RECURSIVE SkipWs(_)
\* the sentry of a formatted extraction skips leading whitespace
SkipWs(b) == IF b # <<>> /\ IsSpace(Head(b)) THEN SkipWs(Tail(b)) ELSE b

RECURSIVE AfterNewline(_)
\* the characters after the first newline (<<>> when there is none)
AfterNewline(b) ==
    IF b = <<>> THEN <<>>
    ELSE IF Head(b) = NL THEN Tail(b) ELSE AfterNewline(Tail(b))

HasNewline(b) == \E i \in 1..Len(b) : b[i] = NL

\* cin.ignore(numeric_limits<streamsize>::max(), '\n')
Ignore(s) ==
    IF ~Good(s) THEN [s EXCEPT !.fail = TRUE]
    ELSE IF HasNewline(s.buf) THEN [s EXCEPT !.buf = AfterNewline(s.buf)]
    ELSE [s EXCEPT !.buf = <<>>, !.eofb = TRUE]

\* cin.get()
Get(s) ==
    IF ~Good(s) THEN [s EXCEPT !.fail = TRUE]
    ELSE IF s.buf # <<>> THEN [s EXCEPT !.buf = Tail(s.buf)]
    ELSE [s EXCEPT !.eofb = TRUE, !.fail = TRUE]

RECURSIVE DigitRun(_)
\* the longest prefix of digits
DigitRun(b) ==
    IF b # <<>> /\ IsDigit(Head(b)) THEN <<Head(b)>> \o DigitRun(Tail(b)) ELSE <<>>

RECURSIVE Accumulate(_, _, _)
\* num_get: the value of a digit run as a 32 bit int; ovf when it does not fit
Accumulate(ds, neg, acc) ==
    IF ds = <<>> THEN [v |-> acc, ovf |-> FALSE]
    ELSE LET d == DigitVal(Head(ds))
             fits == IF neg
                     THEN acc > -214748364 \/ (acc = -214748364 /\ d <= 8)
                     ELSE acc < 214748364 \/ (acc = 214748364 /\ d <= 7)
         IN  IF ~fits THEN [v |-> IF neg THEN IntMin ELSE IntMax, ovf |-> TRUE]
             ELSE Accumulate(Tail(ds), neg, IF neg THEN acc * 10 - d ELSE acc * 10 + d)

\* cin >> choice  (int): [s: the stream afterwards, ok: extraction succeeded, val]
ExtractInt(s) ==
    IF ~Good(s) THEN [s |-> [s EXCEPT !.fail = TRUE], ok |-> FALSE, val |-> 0]
    ELSE LET b1 == SkipWs(s.buf) IN
         IF b1 = <<>>
         THEN [s |-> [buf |-> <<>>, fail |-> TRUE, eofb |-> TRUE], ok |-> FALSE, val |-> 0]
         ELSE LET neg  == Head(b1) = "-"
                  b2   == IF neg THEN Tail(b1) ELSE b1
                  ds   == DigitRun(b2)
                  rest == SubSeq(b2, Len(ds) + 1, Len(b2))
                  num  == Accumulate(ds, neg, 0)
                  hitEof == rest = <<>>
              IN  IF ds = <<>>
                  THEN [s |-> [buf |-> rest, fail |-> TRUE, eofb |-> hitEof],
                        ok |-> FALSE, val |-> 0]
                  ELSE [s |-> [buf |-> rest, fail |-> num.ovf, eofb |-> hitEof],
                        ok |-> ~num.ovf, val |-> num.v]

\* cin.rdbuf()->in_avail() > 0.  What in_avail reports is up to the library:
\* "zero" never reports buffered characters (a stdio-synchronised cin),
\* "count" reports the unread characters.
InAvailPositive(impl, s) == impl = "count" /\ s.buf # <<>>

\* The operation would not block: it fails at once, input is closed, or the
\* characters it needs are there (an open buffer always ends with a newline).
ReadyExtract(s, cl) == ~Good(s) \/ cl \/ SkipWs(s.buf) # <<>>
ReadyIgnore(s, cl) == ~Good(s) \/ cl \/ HasNewline(s.buf)
ReadyGet(s, cl) == ~Good(s) \/ cl \/ s.buf # <<>>

(* ------------------------------ the tree ------------------------------- *)
\* A node is [kind, title, items, isRoot, action]; node 1 is the root.
\* action: what the std::function does when called:
\*   "ok" returns, "throw_std" throws a std::exception, "throw_other" throws
\*   a value that is no std::exception, "unbound" is an empty std::function.
MenuNode(t, its, root) ==
    [kind |-> "menu", title |-> t, items |-> its, isRoot |-> root, action |-> "none"]
ActionNode(t, a) ==
    [kind |-> "action", title |-> t, items |-> <<>>, isRoot |-> FALSE, action |-> a]

TreeABC ==
    << MenuNode("Main", <<2, 3, 4>>, TRUE),
       ActionNode("Alpha", "ok"), ActionNode("Beta", "ok"), ActionNode("Gamma", "ok") >>

TreeNested ==
    << MenuNode("Root", <<2>>, TRUE), MenuNode("Sub", <<3>>, FALSE), ActionNode("X", "ok") >>

TreeEmpty == << MenuNode("Empty", <<>>, FALSE) >>

TreeMixed ==
    << MenuNode("Root", <<2, 3, 4>>, TRUE),
       ActionNode("Fails", "throw_std"),
       MenuNode("Sub", <<5, 6, 7>>, FALSE),
       ActionNode("Works", "ok"),
       ActionNode("Unbound", "unbound"),
       MenuNode("Sub2", <<>>, FALSE),
       ActionNode("Odd", "throw_other") >>

Trees == {TreeABC, TreeNested, TreeEmpty, TreeMixed}

(* ------------------------------- input --------------------------------- *)
\* the lines a user types
Lines ==
    { <<"0", NL>>, <<"1", NL>>, <<"2", NL>>, <<"3", NL>>,
      <<"-", "1", NL>>, <<"x", NL>>, <<NL>>, <<"1", " ", "2", NL>>,
      <<"-", "2", "1", "4", "7", "4", "8", "3", "6", "4", "8", NL>>,
      <<"9", "9", "9", "9", "9", "9", "9", "9", "9", "9", NL>> }

\* unread lines behind the first one (which the program may have read in part)
Pending(b) == Cardinality({i \in 1..Len(AfterNewline(b)) : AfterNewline(b)[i] = NL})

RECURSIVE FeedChars(_)
\* a feed of integers 0..9, one per line
FeedChars(f) == IF f = <<>> THEN <<>> ELSE <<Digits[Head(f) + 1], NL>> \o FeedChars(Tail(f))

Feeds == UNION { [1..n -> 0..2] : n \in 1..MaxFeed }

(* ------------------------------- state --------------------------------- *)
VARIABLES
    variant,    \* "include" or "src": which pair of Menu.h / ActionItem.h runs
    availImpl,  \* what in_avail reports on this platform
    nodes,      \* the tree
    stack,      \* call stack of execute(): frames [node, pc], innermost last
    cin,        \* std::cin
    closed,     \* no more input will come (end of stream once buf is read)
    typed,      \* lines typed so far
    calls,      \* calls[n]: calls of execute() on node n
    invoked,    \* invoked[n]: invocations of the callable of ActionItem n
    ret,        \* value returned by the execute() that returned last
    exc,        \* exception in flight: "none", "std", "other"
    msg,        \* diagnostic written by the last step
    ev,         \* what the last step was
    choices,    \* the choices read so far, in order
    status,     \* "running", "returned", "terminated" (uncaught exception), "ub"
    oob,        \* items was indexed out of bounds
    screen,     \* lines rendered by the last render
    feed,       \* the prepared input (FeedSpec), else <<>>
    addlog,     \* the add_* calls made so far, in call order: [menu, child]
    phase,      \* 1: first run, 2: the run it is compared with
    saved       \* what was seen of the first run when the second began

vars == <<variant, availImpl, nodes, stack, cin, closed, typed, calls, invoked,
          ret, exc, msg, ev, choices, status, oob, screen, feed, addlog, phase,
          saved>>

\* what a running execute() has no access to
fixed == <<variant, availImpl, feed, addlog, phase, saved>>

config == <<fixed, nodes>>

Top == stack[Len(stack)]
TopNode == nodes[Top.node]
Running == status = "running" /\ stack # <<>>
AtMenu(pc) == Running /\ TopNode.kind = "menu" /\ Top.pc = pc
AtAction(pc) == Running /\ TopNode.kind = "action" /\ Top.pc = pc
SetPc(pc) == [stack EXCEPT ![Len(stack)].pc = pc]

\* the first position of execute() of a node
Entry(n) == IF nodes[n].kind = "menu" THEN "render" ELSE "act"

\* the add_* calls that build the tree nds, menu by menu from menu m on
RECURSIVE LogFrom(_, _)
LogFrom(nds, m) ==
    IF m > Len(nds) THEN <<>>
    ELSE [i \in 1..Len(nds[m].items) |-> [menu |-> m, child |-> nds[m].items[i]]]
         \o LogFrom(nds, m + 1)

NoSave == [kind |-> "none"]

InitCommon ==
    /\ variant \in {"include", "src"}
    /\ addlog = LogFrom(nodes, 1)
    /\ phase = 1
    /\ saved = NoSave
    \* in_avail is used by MenuUtils::pause alone (include variant)
    /\ availImpl \in IF variant = "include" THEN {"zero", "count"} ELSE {"zero"}
    /\ stack = <<[node |-> 1, pc |-> Entry(1)]>>
    /\ calls = [n \in 1..Len(nodes) |-> IF n = 1 THEN 1 ELSE 0]
    /\ invoked = [n \in 1..Len(nodes) |-> 0]
    /\ ret = "none"
    /\ exc = "none"
    /\ msg = "none"
    /\ ev = "start"
    /\ choices = <<>>
    /\ status = "running"
    /\ oob = FALSE
    /\ screen = <<>>

\* the application has built a tree and calls execute() on its root
Init ==
    /\ nodes \in {TreeEmpty, TreeNested, TreeMixed}
    /\ InitCommon
    /\ cin = [buf |-> <<>>, fail |-> FALSE, eofb |-> FALSE]
    /\ closed = FALSE
    /\ typed = 0
    /\ feed = <<>>

(* ------------------------- pieces of the code -------------------------- *)
\* an exit test that a root Menu never passes
IsExitUnlessRoot(choice) == 0 = choice /\ ~TopNode.isRoot

\* a slip of the exit test: if (0 > choice)
IsExitNegative(choice) == 0 > choice

\* if (0 == choice)
IsExit(choice) == 0 = choice

\* slips of the range test: the lower limit forgotten, the upper limit off by one
isChoiceValidNoLower(choice, size) == choice <= size
isChoiceValidOffByOne(choice, size) == (choice > 0) /\ (choice <= size + 1)

\* (choice > 0) && (choice <= static_cast<int>(this->items.size()))
isChoiceValid(choice, size) == (choice > 0) /\ (choice <= size)

\* items[choice - 1]: the 0-based index, in 32 bit int arithmetic (the minimum
\* int wraps; the index it gives is outside every vector)
ItemIndex(choice) == IF choice = IntMin THEN IntMax ELSE choice - 1

\* a loop that hands the exit of its child on: if (!items[choice - 1]->execute()) return false;
ChildEndsLoopOnFalse(r) == r = "false"

\* a loop that ends as soon as a child has returned
ChildEndsLoopAlways(r) == TRUE

\* the return value of items[choice - 1]->execute() is discarded: it never
\* ends the loop of the calling Menu
ChildEndsLoop(r) == FALSE

\* a listing that numbers the items from 0: std::cout << i << ". "
ShownIndexFromZero(i) == i

\* std::cout << (i + 1) << ". ": the number shown for items[i]
ShownIndex(i) == i + 1

\* a Menu loop without its handler
MenuCatchesNothing(v, e) == FALSE

\* catch (const std::exception&) in Menu::execute: the include variant only
MenuCatches(v, e) == v = "include" /\ e = "std"

\* catch (const std::exception&) in ActionItem::execute: the src variant only
ActionCatches(v, e) == v = "src" /\ e = "std"

\* what calling the std::function throws
Thrown(a) ==
    CASE a = "throw_std" -> "std"
      [] a = "throw_other" -> "other"
      [] a = "unbound" -> "std"      \* std::bad_function_call
      [] OTHER -> "none"

\* a read without the retry: the failed extraction falls through to the test of
\* the choice (operator>> stores 0 on a failed parse)
ReadChoiceNoRetry(v, s) ==
    LET r == ExtractInt(s) IN
    [s |-> IF r.ok /\ v = "include" THEN Ignore(r.s) ELSE r.s, ok |-> TRUE, val |-> r.val]

\* a read that takes the end of the input for the choice 0
ReadChoiceEofIsExit(v, s) ==
    LET r == ExtractInt(s) IN
    IF r.ok
    THEN [s |-> IF v = "include" THEN Ignore(r.s) ELSE r.s, ok |-> TRUE, val |-> r.val]
    ELSE [s |-> Ignore(Clear(r.s)), ok |-> r.s.eofb, val |-> 0]

\* the read of a choice with its recovery: [s, ok, val]
\*   include: MenuUtils::get_int_option, one turn of its loop
\*   src:     if (!(std::cin >> choice)) { clear; ignore; continue; }
ReadChoice(v, s) ==
    LET r == ExtractInt(s) IN
    IF r.ok
    THEN [s |-> IF v = "include" THEN Ignore(r.s) ELSE r.s, ok |-> TRUE, val |-> r.val]
    ELSE [s |-> Ignore(Clear(r.s)), ok |-> FALSE, val |-> r.val]

ReadyChoice(v, s, cl) ==
    /\ ReadyExtract(s, cl)
    /\ LET r == ExtractInt(s) IN
       IF r.ok THEN v = "include" => ReadyIgnore(r.s, cl)
       ELSE ReadyIgnore(Clear(r.s), cl)

(* ------------------------------ execute() ------------------------------ *)
\* an execute() ends: by return (r) or by an exception leaving it (e)
Return(r, e) ==
    /\ stack' = SubSeq(stack, 1, Len(stack) - 1)
    /\ ret' = r
    /\ exc' = e
    /\ status' = IF Len(stack) > 1 THEN "running"
                 ELSE IF e = "none" THEN "returned" ELSE "terminated"

\* a dispatch that takes the child out of the vector: std::move(items[i])->execute()
ItemsAfterCallMovedOut(its, i) == SubSeq(its, 1, i - 1) \o SubSeq(its, i + 1, Len(its))

\* items[i]->execute(): the child is reached through its unique_ptr, which
\* stays in the vector (its is the vector, i the 1-based position)
ItemsAfterCall(its, i) == its

\* items[idx]->execute()
Call(idx) ==
    IF idx \in 0..(Len(TopNode.items) - 1)
    THEN LET child == TopNode.items[idx + 1] IN
         /\ stack' = Append(SetPc("dispatch"), [node |-> child, pc |-> Entry(child)])
         /\ calls' = [calls EXCEPT ![child] = @ + 1]
         /\ nodes' = [nodes EXCEPT ![Top.node].items = ItemsAfterCall(@, idx + 1)]
         /\ UNCHANGED <<ret, exc, status, oob>>
    ELSE \* operator[] outside the vector: undefined behaviour
         /\ oob' = TRUE
         /\ status' = "ub"
         /\ UNCHANGED <<stack, calls, ret, exc, nodes>>

\* Menu::execute from the test of the choice to the end of the iteration
Choose(c) ==
    /\ choices' = Append(choices, c)
    /\ ev' = "choice"
    /\ IF IsExit(c)
       THEN /\ Return("false", "none")
            /\ msg' = "none"
            /\ UNCHANGED <<calls, oob, nodes>>
       ELSE IF isChoiceValid(c, Len(TopNode.items))
       THEN /\ Call(ItemIndex(c))
            /\ msg' = "none"
       ELSE /\ msg' = "invalid_choice"
            /\ stack' = SetPc(IF variant = "include" THEN "pause" ELSE "render")
            /\ UNCHANGED <<calls, ret, exc, status, oob, nodes>>

\* the read failed: the bad input is gone, ask again
BadInput ==
    /\ ev' = "badinput"
    /\ msg' = IF variant = "include" THEN "not_a_number" ELSE "none"
    /\ stack' = SetPc(IF variant = "include" THEN "read" ELSE "render")
    /\ UNCHANGED <<calls, ret, exc, status, oob, choices, nodes>>

\* clear the screen, list the items, the 0 line (and the prompt)
Render ==
    /\ AtMenu("render")
    /\ screen' = [i \in 1..Len(TopNode.items) |->
                      [index |-> ShownIndex(i - 1), title |-> nodes[TopNode.items[i]].title]]
                 \o <<[index |-> 0,
                       title |-> IF TopNode.isRoot THEN "Exit" ELSE "Go back."]>>
    /\ stack' = SetPc("read")
    /\ ev' = "render"
    /\ msg' = "none"
    /\ UNCHANGED <<config, cin, closed, typed, calls, invoked, ret, exc, choices,
                   status, oob>>

\* read the choice and act on it
Read ==
    /\ AtMenu("read")
    /\ ReadyChoice(variant, cin, closed)
    /\ LET r == ReadChoice(variant, cin) IN
       /\ cin' = r.s
       /\ IF r.ok THEN Choose(r.val) ELSE BadInput
    /\ UNCHANGED <<fixed, closed, typed, invoked, screen>>

\* ActionItem::execute, include variant: if (action) action(); return true;
ActionInclude ==
    /\ AtAction("act")
    /\ variant = "include"
    /\ LET a == TopNode.action
           called == a # "unbound"
           e == IF called THEN Thrown(a) ELSE "none"
       IN  /\ invoked' = [invoked EXCEPT ![Top.node] = @ + (IF called THEN 1 ELSE 0)]
           /\ Return(IF e = "none" THEN "true" ELSE "none", e)
    /\ ev' = "act"
    /\ msg' = "none"
    /\ UNCHANGED <<config, cin, closed, typed, calls, choices, oob, screen>>

\* ActionItem::execute, src variant: try { action(); ... } catch (std::exception)
ActionSrc ==
    /\ AtAction("act")
    /\ variant = "src"
    /\ LET a == TopNode.action
           e == Thrown(a)
       IN  /\ invoked' = [invoked EXCEPT ![Top.node] = @ + (IF a # "unbound" THEN 1 ELSE 0)]
           /\ IF e = "none" \/ ActionCatches(variant, e)
              THEN /\ stack' = SetPc("wait")
                   /\ msg' = IF e = "none" THEN "none" ELSE "what"
                   /\ UNCHANGED <<ret, exc, status>>
              ELSE /\ Return("none", e)
                   /\ msg' = "none"
    /\ ev' = "act"
    /\ UNCHANGED <<config, cin, closed, typed, calls, choices, oob, screen>>

\* ActionItem::execute, src variant: cin.ignore(max, '\n'); cin.get(); return true;
WaitSrc ==
    /\ AtAction("wait")
    /\ ReadyIgnore(cin, closed)
    /\ ReadyGet(Ignore(cin), closed)
    /\ cin' = Get(Ignore(cin))
    /\ Return("true", "none")
    /\ ev' = "wait"
    /\ msg' = "none"
    /\ UNCHANGED <<config, closed, typed, calls, invoked, choices, oob, screen>>

\* Menu::execute after items[choice - 1]->execute() has ended
Resume ==
    /\ AtMenu("dispatch")
    /\ IF exc = "none"
       THEN IF ChildEndsLoop(ret)
            THEN Return("false", "none") /\ msg' = "none"
            ELSE /\ stack' = SetPc(IF variant = "include" THEN "pause" ELSE "render")
                 /\ msg' = "none"
                 /\ UNCHANGED <<ret, exc, status>>
       ELSE IF MenuCatches(variant, exc)
            THEN /\ stack' = SetPc("pause")
                 /\ msg' = "what"
                 /\ exc' = "none"
                 /\ UNCHANGED <<ret, status>>
            ELSE Return("none", exc) /\ msg' = "none"
    /\ ev' = "resume"
    /\ UNCHANGED <<config, cin, closed, typed, calls, invoked, choices, oob, screen>>

\* MenuUtils::pause: if (in_avail() > 0) ignore(max, '\n');
Pause ==
    /\ AtMenu("pause")
    /\ InAvailPositive(availImpl, cin) => ReadyIgnore(cin, closed)
    /\ cin' = IF InAvailPositive(availImpl, cin) THEN Ignore(cin) ELSE cin
    /\ stack' = SetPc("pause_get")
    /\ ev' = "pause"
    /\ msg' = "none"
    /\ UNCHANGED <<config, closed, typed, calls, invoked, ret, exc, choices, status,
                   oob, screen>>

\* MenuUtils::pause: cin.get();
PauseGet ==
    /\ AtMenu("pause_get")
    /\ ReadyGet(cin, closed)
    /\ cin' = Get(cin)
    /\ stack' = SetPc("render")
    /\ ev' = "pause_get"
    /\ msg' = "none"
    /\ UNCHANGED <<config, closed, typed, calls, invoked, ret, exc, choices, status,
                   oob, screen>>

(* ------------------------------ the user ------------------------------- *)
TypeLine ==
    /\ status = "running"
    /\ ~closed
    /\ typed < MaxLines
    /\ cin.buf = <<>> \/ Pending(cin.buf) < MaxPending
    /\ \E l \in Lines : cin' = [cin EXCEPT !.buf = @ \o l]
    /\ typed' = typed + 1
    /\ ev' = "type"
    /\ msg' = "none"
    /\ UNCHANGED <<config, stack, closed, calls, invoked, ret, exc, choices, status,
                   oob, screen>>

\* end of input (Ctrl-D, end of a pipe)
CloseInput ==
    /\ status = "running"
    /\ ~closed
    /\ closed' = TRUE
    /\ ev' = "close"
    /\ msg' = "none"
    /\ UNCHANGED <<config, stack, cin, typed, calls, invoked, ret, exc, choices,
                   status, oob, screen>>

Program ==
    \/ Render
    \/ Read
    \/ ActionInclude
    \/ ActionSrc
    \/ WaitSrc
    \/ Resume
    \/ Pause
    \/ PauseGet

Next ==
    \/ Program
    \/ TypeLine
    \/ CloseInput

Spec == Init /\ [][Next]_vars

\* a prepared input: the integers of feed, one per line, then end of input
FeedInit ==
    /\ nodes \in {TreeABC, TreeNested}
    /\ InitCommon
    /\ feed \in Feeds
    /\ cin = [buf |-> FeedChars(feed), fail |-> FALSE, eofb |-> FALSE]
    /\ closed = TRUE
    /\ typed = 0

FeedSpec == FeedInit /\ [][Program]_vars

(* ------------------------- building the tree --------------------------- *)
\* what the application has constructed before it adds anything: two Menus
\* and an ActionItem, none of them in a Menu yet
Pool ==
    << MenuNode("Root", <<>>, TRUE), MenuNode("Sub", <<>>, FALSE),
       ActionNode("Item", "ok") >>

Menus(nds) == {m \in 1..Len(nds) : nds[m].kind = "menu"}

\* an add that skips a child the Menu already holds
PushBackUnique(its, x) ==
    IF \E i \in 1..Len(its) : its[i] = x THEN its ELSE Append(its, x)

\* items.push_back(item)
PushBack(its, x) == Append(its, x)

BuildInit ==
    /\ nodes = Pool
    /\ variant \in {"include", "src"}
    /\ availImpl \in IF variant = "include" THEN {"zero", "count"} ELSE {"zero"}
    /\ stack = <<>>
    /\ calls = [n \in 1..Len(nodes) |-> 0]
    /\ invoked = [n \in 1..Len(nodes) |-> 0]
    /\ ret = "none"
    /\ exc = "none"
    /\ msg = "none"
    /\ ev = "construct"
    /\ choices = <<>>
    /\ status = "setup"
    /\ oob = FALSE
    /\ screen = <<>>
    /\ cin = [buf |-> <<>>, fail |-> FALSE, eofb |-> FALSE]
    /\ closed = FALSE
    /\ typed = 0
    /\ feed = <<>>
    /\ addlog = <<>>
    /\ phase = 1
    /\ saved = NoSave

\* nothing runs while the tree is built
Idle ==
    UNCHANGED <<variant, availImpl, feed, phase, saved, stack, cin, closed, typed,
                ret, exc, msg, choices, status, oob, screen>>

\* m.add_item(n): n is any constructed IMenuItem, held by shared_ptr
AddItem(m, n, limit) ==
    /\ status = "setup"
    /\ Len(addlog) < limit
    /\ m \in Menus(nodes)
    /\ n \in 1..Len(nodes)
    /\ nodes' = [nodes EXCEPT ![m].items = PushBack(@, n)]
    /\ addlog' = Append(addlog, [menu |-> m, child |-> n])
    /\ ev' = "add_item"
    /\ UNCHANGED <<calls, invoked>>
    /\ Idle

\* m.add_action(t, f): constructs an ActionItem around the bound callable
AddAction(m, t, f, limit) ==
    /\ status = "setup"
    /\ Len(addlog) < limit
    /\ m \in Menus(nodes)
    /\ LET new == Len(nodes) + 1 IN
       /\ nodes' = Append([nodes EXCEPT ![m].items = PushBack(@, new)], ActionNode(t, f))
       /\ addlog' = Append(addlog, [menu |-> m, child |-> new])
    /\ calls' = Append(calls, 0)
    /\ invoked' = Append(invoked, 0)
    /\ ev' = "add_action"
    /\ Idle

\* m.add_sub_menu(sub): sub is any constructed Menu, m itself included
AddSubMenu(m, sub, limit) ==
    /\ status = "setup"
    /\ Len(addlog) < limit
    /\ m \in Menus(nodes)
    /\ sub \in Menus(nodes)
    /\ nodes' = [nodes EXCEPT ![m].items = PushBack(@, sub)]
    /\ addlog' = Append(addlog, [menu |-> m, child |-> sub])
    /\ ev' = "add_sub_menu"
    /\ UNCHANGED <<calls, invoked>>
    /\ Idle

BuildNext ==
    \/ \E m, n \in 1..(Len(nodes)) : AddItem(m, n, MaxAdds)
    \/ \E m \in 1..Len(nodes), f \in {"ok", "throw_std"} : AddAction(m, "New", f, MaxAdds)
    \/ \E m, sub \in 1..Len(nodes) : AddSubMenu(m, sub, MaxAdds)

BuildSpec == BuildInit /\ [][BuildNext]_vars

\* prepared inputs of a run on a built tree: lines "0" and "1", then the end
CycleFeeds == UNION { [1..n -> 0..1] : n \in 1..MaxCycleFeed }

\* the application calls execute() on the Menu it built first
Start ==
    /\ status = "setup"
    /\ feed' \in CycleFeeds
    /\ cin' = [buf |-> FeedChars(feed'), fail |-> FALSE, eofb |-> FALSE]
    /\ closed' = TRUE
    /\ stack' = <<[node |-> 1, pc |-> Entry(1)]>>
    /\ calls' = [calls EXCEPT ![1] = @ + 1]
    /\ status' = "running"
    /\ ev' = "start"
    /\ UNCHANGED <<variant, availImpl, nodes, addlog, phase, saved, typed, invoked,
                   ret, exc, msg, choices, oob, screen>>

CycleNext ==
    \/ \E m, n \in 1..(Len(nodes)) : AddItem(m, n, MaxCycleAdds)
    \/ \E m \in 1..Len(nodes) : AddAction(m, "New", "ok", MaxCycleAdds)
    \/ \E m, sub \in 1..Len(nodes) : AddSubMenu(m, sub, MaxCycleAdds)
    \/ Start
    \/ Program

\* a tree is built, cycles allowed, and then executed on a prepared input
CycleSpec == BuildInit /\ [][CycleNext]_vars

(* --------------------------- two runs compared ------------------------- *)
\* a Menu whose first action throws a value that is no std::exception
TreeThrows ==
    << MenuNode("Root", <<2, 3>>, TRUE), ActionNode("Odd", "throw_other"),
       ActionNode("Unbound", "unbound") >>

TwinFeeds == UNION { [1..n -> 0..2] : n \in 1..MaxTwinFeed }

\* the first of two runs: execute() on the root with a prepared input
TwinInit ==
    /\ nodes \in {TreeNested, TreeMixed, TreeThrows}
    /\ InitCommon
    /\ feed \in TwinFeeds
    /\ cin = [buf |-> FeedChars(feed), fail |-> FALSE, eofb |-> FALSE]
    /\ closed = TRUE
    /\ typed = 0

\* where a run is looked at: when it has ended, or when it has just read a
\* choice
SeenKind ==
    IF status # "running" THEN "end" ELSE IF ev = "choice" THEN "choice" ELSE "other"

\* what is seen of a run there
Seen ==
    [kind |-> SeenKind, choices |-> choices, stack |-> stack, calls |-> calls,
     invoked |-> invoked, cin |-> cin, status |-> status, ret |-> ret, exc |-> exc]

\* of that, the navigation: which execute() calls are open, on which nodes,
\* how often each node was executed, and whether the root call is over
Nav(s) ==
    [kind |-> s.kind, choices |-> s.choices,
     path |-> [i \in 1..Len(s.stack) |-> s.stack[i].node],
     calls |-> s.calls, status |-> s.status]

\* execute() is called anew on the root of tree, in variant v on platform a
\* with the prepared input f; what was seen of the first run is kept
Rerun(tree, v, a, f, keep) ==
    /\ phase = 1
    /\ SeenKind # "other"
    /\ phase' = 2
    /\ saved' = keep
    /\ nodes' = tree
    /\ variant' = v
    /\ availImpl' = a
    /\ feed' = f
    /\ cin' = [buf |-> FeedChars(f), fail |-> FALSE, eofb |-> FALSE]
    /\ stack' = <<[node |-> 1, pc |-> Entry(1)]>>
    /\ calls' = [n \in 1..Len(nodes) |-> IF n = 1 THEN 1 ELSE 0]
    /\ invoked' = [n \in 1..Len(nodes) |-> 0]
    /\ ret' = "none"
    /\ exc' = "none"
    /\ msg' = "none"
    /\ ev' = "start"
    /\ choices' = <<>>
    /\ status' = "running"
    /\ oob' = FALSE
    /\ screen' = <<>>
    /\ UNCHANGED <<closed, typed, addlog>>

\* the second run: the same Menu constructed with the other value of isRoot,
\* the same children, the same build and the same input
RerunOtherRoot ==
    Rerun([nodes EXCEPT ![1].isRoot = ~@], variant, availImpl, feed, Seen)

\* the second run: the same tree under the other variant, any input
RerunOtherVariant ==
    \E a \in {"zero", "count"}, f \in TwinFeeds :
        /\ variant = "include" => a = "zero"
        /\ Rerun(nodes, IF variant = "include" THEN "src" ELSE "include", a, f, Nav(Seen))

RootTwinNext ==
    \/ Program
    \/ RerunOtherRoot

RootTwinSpec == TwinInit /\ [][RootTwinNext]_vars

VariantTwinNext ==
    \/ Program
    \/ RerunOtherVariant

VariantTwinSpec == TwinInit /\ [][VariantTwinNext]_vars

(* ============================== claims ================================= *)
Last(q) == q[Len(q)]
\* the step is one of the program (not the user typing or closing the input)
ProgramStep == ev' \notin {"type", "close"}
\* the step reads choice c in the loop of the innermost Menu
ReadsChoice(c) == AtMenu("read") /\ choices' = Append(choices, c)
\* the frames below the innermost one
Outer(st) == SubSeq(st, 1, Len(st) - 1)
\* the execute() of the innermost frame ends in this step
TopEnds == Running /\ Len(stack') = Len(stack) - 1

\* C1: a selection i with 1 <= i <= |children(M)| calls execute() on
\* children(M)[i-1] exactly once and on no other node, and when that execute()
\* has ended M's loop goes on (M's frame stays, on its way to the next prompt).
C1_SelectionExecutesOnceAndLoopGoesOn ==
    [][ /\ \A i \in 1..3 :
             (ReadsChoice(i) /\ i <= Len(TopNode.items))
                 => /\ calls' = [calls EXCEPT ![TopNode.items[i]] = @ + 1]
                    /\ Len(stack') = Len(stack) + 1
                    /\ Last(stack').node = TopNode.items[i]
        /\ (AtMenu("dispatch") /\ ProgramStep)
                 => /\ Len(stack') = Len(stack)
                    /\ Last(stack').node = Top.node
                    /\ Last(stack').pc \in {"render", "pause"}
                    /\ calls' = calls ]_vars

\* C2: a step that reads the choice 0 returns false from the innermost Menu in
\* that step and calls execute() on nothing, whatever was chosen before.
C2_ZeroReturnsFalse ==
    [][ (AtMenu("read") /\ ProgramStep /\ ExtractInt(cin).ok /\ ExtractInt(cin).val = 0)
            => /\ choices' = Append(choices, 0)
               /\ stack' = Outer(stack)
               /\ ret' = "false"
               /\ exc' = "none"
               /\ calls' = calls
               /\ invoked' = invoked ]_vars

\* a non-root Menu with children has returned false on a 0 after other choices
C2_Witness ==
    /\ ev = "choice"
    /\ Len(choices) >= 2
    /\ Last(choices) = 0
    /\ ret = "false"
    /\ Len(stack) >= 1
    /\ \E n \in 2..Len(nodes) : calls[n] > 0 /\ nodes[n].kind = "menu" /\ nodes[n].items # <<>>

\* C3: a numeric choice c < 0 or c > |children(M)| calls execute() on nothing
\* and does not end the loop: it is reported invalid, the Menu goes back to
\* render and prompt (in the include variant after its pause), and the
\* children are unchanged.
C3_OutOfRangeReprompts ==
    [][ /\ (/\ AtMenu("read") /\ ProgramStep /\ ExtractInt(cin).ok
            /\ \/ ExtractInt(cin).val < 0
               \/ ExtractInt(cin).val > Len(TopNode.items))
            => /\ calls' = calls
               /\ invoked' = invoked
               /\ msg' = "invalid_choice"
               /\ status' = "running"
               /\ Outer(stack') = Outer(stack)
               /\ Len(stack') = Len(stack)
               /\ Last(stack').node = Top.node
               /\ Last(stack').pc = IF variant = "include" THEN "pause" ELSE "render"
               /\ nodes' = nodes
        /\ (AtMenu("pause") /\ ProgramStep) => stack' = SetPc("pause_get")
        /\ (AtMenu("pause_get") /\ ProgramStep) => stack' = SetPc("render")
        /\ (AtMenu("render") /\ ProgramStep) => stack' = SetPc("read") ]_vars

\* a choice above the size was refused by a Menu without children
C3_Witness ==
    /\ ev = "choice"
    /\ msg = "invalid_choice"
    /\ Running
    /\ TopNode.kind = "menu"
    /\ TopNode.items = <<>>
    /\ Last(choices) > 0

\* the next unread input is no number: neither a digit nor a sign and a digit
NonNumeric(b) ==
    LET w == SkipWs(b) IN
    /\ w # <<>>
    /\ ~IsDigit(Head(w))
    /\ ~(Head(w) = "-" /\ Len(w) > 1 /\ IsDigit(w[2]))

\* C4: non-numeric input at the prompt calls execute() on nothing and does not
\* make Menu::execute return: the line is discarded and the choice is asked for
\* again.
C4_NonNumericRetries ==
    [][ (AtMenu("read") /\ ProgramStep /\ NonNumeric(cin.buf))
            => /\ calls' = calls
               /\ invoked' = invoked
               /\ choices' = choices
               /\ status' = "running"
               /\ ret' = ret
               /\ Len(stack') = Len(stack)
               /\ Outer(stack') = Outer(stack)
               /\ Last(stack').node = Top.node
               /\ Last(stack').pc \in {"read", "render"}
               /\ cin'.buf = AfterNewline(SkipWs(cin.buf))
               /\ Good(cin') ]_vars

\* a sub-menu met non-numeric input and is asking again
C4_Witness ==
    /\ ev = "badinput"
    /\ Running
    /\ Len(stack) >= 2
    /\ Top.pc \in {"read", "render"}
    /\ Good(cin)
    /\ Len(choices) >= 1

\* C5: ActionItem::execute always ends by returning true: no error of the
\* callable leaves it.
C5_ActionAlwaysReturnsTrue ==
    [][ (TopEnds /\ TopNode.kind = "action") => (ret' = "true" /\ exc' = "none") ]_vars

\* C6: no error ends a Menu loop or leaves Menu::execute: a Menu::execute ends
\* only by returning false on a 0 read in its own loop.
C6_MenuEndsOnlyOnZero ==
    [][ /\ (TopEnds /\ TopNode.kind = "menu")
            => /\ ReadsChoice(0)
               /\ ret' = "false"
               /\ exc' = "none"
        /\ status' # "terminated" ]_vars

\* C7: executing an ActionItem with an unbound callable is a no-op: nothing is
\* invoked or reported, no input is consumed, no error is raised, and
\* execute() returns true.
C7_UnboundIsNoOp ==
    [][ (Running /\ TopNode.kind = "action" /\ TopNode.action = "unbound" /\ ProgramStep)
            => /\ invoked' = invoked
               /\ msg' = "none"
               /\ cin' = cin
               /\ TopEnds
               /\ ret' = "true"
               /\ exc' = "none" ]_vars

\* C8: a 0 ends the innermost Menu loop alone (the frames of the k-1 outer
\* loops stay as they are), and a Menu whose child's execute() has returned,
\* true or false, goes on with its own loop and does not return.
C8_ZeroUnwindsOneLevel ==
    [][ /\ ReadsChoice(0)
            => /\ stack' = Outer(stack)
               /\ status' = (IF Len(stack) = 1 THEN "returned" ELSE "running")
        /\ (AtMenu("dispatch") /\ exc = "none" /\ ProgramStep)
            => /\ ret \in {"true", "false"}
               /\ Len(stack') = Len(stack)
               /\ Outer(stack') = Outer(stack)
               /\ Last(stack').node = Top.node
               /\ Last(stack').pc \in {"render", "pause"}
               /\ status' = "running" ]_vars

\* three loops were nested, the innermost returned false on 0 and its parent,
\* still inside the root's loop, has gone on with its own loop
C8_Witness ==
    /\ nodes = TreeMixed
    /\ choices = <<2, 2, 0>>
    /\ ev = "resume"
    /\ ret = "false"
    /\ Len(stack) = 2
    /\ Top.node = 3
    /\ Top.pc \in {"render", "pause"}
    /\ stack[1] = [node |-> 1, pc |-> "dispatch"]

RECURSIVE DigitsOf(_)
DigitsOf(b) ==
    IF b = <<>> THEN <<>>
    ELSE (IF IsDigit(Head(b)) THEN <<Head(b)>> ELSE <<>>) \o DigitsOf(Tail(b))

\* C9: the integers of the input are taken as choices one after the other and
\* none is consumed otherwise; 2,0 on [A,B,C] executes B once, A and C never,
\* and returns false; 1,1,0,0 on Root -> Sub -> X executes X once, returns from
\* Sub to Root and then returns false from Root.
C9_FeedIsReadAsChoices ==
    /\ Len(choices) <= Len(feed)
    /\ choices = SubSeq(feed, 1, Len(choices))
    /\ DigitsOf(cin.buf) = DigitsOf(FeedChars(SubSeq(feed, Len(choices) + 1, Len(feed))))
    /\ (nodes = TreeABC /\ feed = <<2, 0>> /\ DigitsOf(cin.buf) = <<>>)
           => /\ status = "returned"
              /\ ret = "false"
              /\ calls = <<1, 0, 1, 0>>
              /\ invoked = <<0, 0, 1, 0>>
    /\ (nodes = TreeNested /\ feed = <<1, 1, 0, 0>> /\ DigitsOf(cin.buf) = <<>>)
           => /\ status = "returned"
              /\ ret = "false"
              /\ calls = <<1, 1, 1>>
              /\ invoked = <<0, 0, 1>>

\* C10: items is indexed with choice - 1 for 1 <= choice <= items.size() only:
\* no choice of the int range reads items out of bounds, and 0 maps to no child.
C10_IndexInBounds ==
    [][ /\ oob' = FALSE
        /\ status' # "ub"
        /\ (AtMenu("read") /\ Len(choices') = Len(choices) + 1 /\ calls' # calls)
               => LET c == Last(choices') IN
                  /\ c >= 1
                  /\ c <= Len(TopNode.items)
                  /\ Last(stack').node = TopNode.items[(c - 1) + 1] ]_vars

\* the minimum int and a value above the size were refused, and the choice
\* equal to the size reached the last child
C10_Witness ==
    /\ nodes = TreeNested
    /\ choices = <<IntMin, 2, 1>>
    /\ Len(stack) = 2
    /\ Top.node = 2
    /\ calls[2] = 1
    /\ ~oob

\* C11: the number rendered in front of a child's title is the choice that
\* dispatches to it: each render lists the children in insertion order with
\* the numbers 1..n and then the 0 line, and choice i executes the child
\* rendered with number i.
C11_ShownNumberIsTheChoice ==
    [][ /\ (AtMenu("render") /\ ProgramStep)
            => /\ Len(screen') = Len(TopNode.items) + 1
               /\ \A i \in 1..Len(TopNode.items) :
                      /\ screen'[i].index = i
                      /\ screen'[i].title = nodes[TopNode.items[i]].title
               /\ Last(screen') =
                      [index |-> 0, title |-> IF TopNode.isRoot THEN "Exit" ELSE "Go back."]
        /\ (AtMenu("read") /\ ProgramStep /\ Len(stack') = Len(stack) + 1)
            => \E i \in 1..(Len(screen) - 1) :
                   /\ screen[i].index = Last(choices')
                   /\ screen[i].title = nodes[Last(stack').node].title
                   /\ TopNode.items[i] = Last(stack').node ]_vars

\* the third of three listed children was chosen and is executing
C11_Witness ==
    /\ nodes = TreeMixed
    /\ Len(screen) = 4
    /\ ev = "choice"
    /\ Last(choices) = 3
    /\ Len(stack) = 2
    /\ Top.node = 4
    /\ screen[3] = [index |-> 3, title |-> "Works"]

\* C13: execute() never changes the tree: no step of the running program
\* adds, removes or reorders a child of any Menu, and no title changes.
C13_ExecuteLeavesTreeUnchanged ==
    [][ProgramStep => nodes' = nodes]_vars

\* a child was executed and returned, a second choice was made after it
C13_Witness ==
    /\ nodes = TreeMixed
    /\ ev = "choice"
    /\ Len(choices) >= 2
    /\ \E n \in DOMAIN calls : calls[n] >= 1
    /\ Len(stack) = 1
    /\ status = "running"

\* the input has ended and nothing of it is left to read
Exhausted == closed /\ cin.buf = <<>>

\* a Menu's loop is the innermost running execute() and no exception that the
\* loop does not catch is on its way out
MenuLoops == Running /\ TopNode.kind = "menu" /\ exc # "other"

\* C17: once the input has ended with no 0 read by the running Menu, that
\* Menu::execute never returns: in both variants every later read fails, the
\* loop asks again, is never blocked, executes no child and reads no choice.
C17_ExhaustedInputLoopsForever ==
    [][ (Exhausted /\ MenuLoops)
            => /\ ENABLED Program
               /\ ProgramStep
                    => /\ Len(stack') = Len(stack)
                       /\ Top'.node = Top.node
                       /\ status' = "running"
                       /\ exc' # "other"
                       /\ Exhausted'
                       /\ calls' = calls
                       /\ invoked' = invoked
                       /\ choices' = choices
                       /\ AtMenu("read") => ev' = "badinput" ]_vars

\* a sub menu entered by a choice keeps failing to read after the input ended
C17_Witness ==
    /\ Exhausted
    /\ MenuLoops
    /\ ev = "badinput"
    /\ Len(stack) = 2
    /\ Len(choices) >= 1
    /\ Top.pc = "read"
    /\ variant = "include"

\* C18: MenuUtils::pause discards all buffered unread input and then waits
\* for Enter, so when pause() has returned nothing that was typed before or
\* at the pause prompt is left to be read as a menu choice.
C18_PauseLeavesNoChoice ==
    (ev = "pause_get" /\ status = "running") => ~ExtractInt(cin).ok

\* C19: one line of input yields at most one choice: the read of a choice
\* parses one integer and discards the rest of its line, so there are never
\* more choices read than lines typed ("1 2" dispatches once).
C19_OneChoicePerLine ==
    Len(choices) <= typed

\* the children that the add_* calls of log gave to Menu m, in call order
RECURSIVE Logged(_, _)
Logged(log, m) ==
    IF log = <<>> THEN <<>>
    ELSE (IF Head(log).menu = m THEN <<Head(log).child>> ELSE <<>>) \o Logged(Tail(log), m)

\* C12: add_item, add_action and add_sub_menu each append exactly one child
\* at the end of the Menu's children and leave every existing child and
\* every other node as it was; after any sequence of these calls a Menu's
\* children are exactly the nodes added to it, in call order.
C12_AddAppendsOneChild ==
    [][ /\ \E m \in Menus(nodes) : \E x \in 1..Len(nodes') :
            /\ Last(addlog') = [menu |-> m, child |-> x]
            /\ nodes'[m] = [nodes[m] EXCEPT !.items = Append(nodes[m].items, x)]
            /\ \A k \in 1..Len(nodes) : k # m => nodes'[k] = nodes[k]
            /\ Len(nodes') = IF ev' = "add_action" THEN Len(nodes) + 1 ELSE Len(nodes)
            /\ ev' = "add_action" => (x = Len(nodes') /\ nodes'[x].kind = "action")
        /\ \A m \in Menus(nodes') : nodes'[m].items = Logged(addlog', m) ]_vars

\* the same ActionItem was added twice to Root, then a Menu after it
C12_Witness ==
    /\ status = "setup"
    /\ Len(addlog) = 3
    /\ nodes[1].items = <<3, 3, 2>>

Range(q) == {q[i] : i \in 1..Len(q)}

\* the nodes reachable from the set S in at most k further steps
RECURSIVE Below(_, _, _)
Below(nds, S, k) ==
    IF k = 0 THEN S
    ELSE Below(nds, S \cup UNION {Range(nds[n].items) : n \in S}, k - 1)

Descendants(nds, m) == Below(nds, Range(nds[m].items), Len(nds))

\* the Menu that is executed is, directly or transitively, its own descendant
Cyclic == 1 \in Descendants(nodes, 1)

RECURSIVE Count(_, _)
Count(q, x) ==
    IF q = <<>> THEN 0 ELSE (IF Head(q) = x THEN 1 ELSE 0) + Count(Tail(q), x)

\* the Menu::execute calls that have not returned
MenuFrames == Len(SelectSeq(stack, LAMBDA fr : nodes[fr.node].kind = "menu"))

RECURSIVE MenuCallsUpTo(_)
MenuCallsUpTo(n) ==
    IF n = 0 THEN 0
    ELSE (IF nodes[n].kind = "menu" THEN calls[n] ELSE 0) + MenuCallsUpTo(n - 1)

\* C16 as stated: a Menu that is its own descendant never returns from
\* execute().
C16_CyclicNeverReturns ==
    Cyclic => status # "returned"

\* C16, amended: nothing checks for cycles when a Menu is added, and on a
\* Menu that is its own descendant execute() enters a further execute() only
\* when a choice selects a child: the nesting is at most the number of choices
\* read plus one, every Menu::execute call either is still running or has
\* read its own 0, and the outermost call returns false at a 0.
C16_CyclicNestsPerChoice ==
    /\ (status = "setup" /\ Len(addlog) < MaxCycleAdds)
        => \A m, sub \in Menus(nodes) : ENABLED AddSubMenu(m, sub, MaxCycleAdds)
    /\ (Cyclic /\ status \in {"running", "returned"})
        => /\ Len(stack) <= Len(choices) + 1
           /\ Count(choices, 0) + MenuFrames = MenuCallsUpTo(Len(nodes))
           /\ status = "returned" => (stack = <<>> /\ ret = "false" /\ Last(choices) = 0)

\* Root holds itself: it was entered a second time by choice 1 and both
\* calls returned at their 0
C16_Witness ==
    /\ Cyclic
    /\ status = "returned"
    /\ choices = <<1, 0, 0>>
    /\ calls[1] = 2

\* a run that will read no further choice: it has ended, or its input has
\* ended and its loop keeps failing to read
Over == status # "running" \/ (Exhausted /\ MenuLoops /\ ev = "badinput")

\* C14: isRoot changes only the text of the 0 line: a Menu and the same Menu
\* with the other value of isRoot, run on the same input, read the same
\* choices, execute the same children in the same order, consume the same
\* input and return false at the same 0 choice.
C14_IsRootOnlyChangesText ==
    phase = 2 =>
        /\ (SeenKind = saved.kind
            /\ (SeenKind = "end" \/ Len(choices) = Len(saved.choices)))
                => Seen = saved
        /\ Over => Len(choices) >= Len(saved.choices)
        /\ saved.kind = "end" => Len(choices) <= Len(saved.choices)

\* both runs entered Sub2 and came back to Sub by its 0
C14_Witness ==
    /\ phase = 2
    /\ nodes[1].isRoot = FALSE
    /\ saved.kind = "choice"
    /\ Seen = saved
    /\ choices = <<2, 2, 0>>
    /\ Len(stack) = 2

\* p is a prefix of q and shorter
StrictPrefix(p, q) == Len(p) < Len(q) /\ SubSeq(q, 1, Len(p)) = p

\* C15: the two variants differ only in presentation: on the same tree and
\* the same sequence of choices they have the same execute() calls open, on
\* the same nodes, have executed each child as often, and end or go on
\* alike: a run never ends after choices that the other run reads on from.
C15_VariantsNavigateAlike ==
    phase = 2 =>
        /\ (SeenKind = saved.kind /\ choices = saved.choices) => Nav(Seen) = saved
        /\ saved.kind = "end" => ~StrictPrefix(saved.choices, choices)
        /\ status # "running" => ~StrictPrefix(choices, saved.choices)

\* both variants ran the throwing action Fails, reported it, went on and
\* returned false at the 0 that followed
C15_Witness ==
    /\ phase = 2
    /\ nodes = TreeMixed
    /\ saved.kind = "end"
    /\ Nav(Seen) = saved
    /\ choices = <<1, 0>>
    /\ status = "returned"
====
